---- MODULE Spec2Model ----
(***************************************************************************)
(* A model of scrape.py: the seen-set store (load / append / compaction),  *)
(* the Telegram delivery client, one scraping cycle and the scheduler loop *)
(* of scrape_viral_tweets.                                                 *)
(*                                                                         *)
(* Python strings are sequences of one-character strings, so that str(),   *)
(* isdigit(), int(), strip(), startswith() and replace() are computed the  *)
(* way the code computes them.  None is the record NoneVal.                *)
(***************************************************************************)
EXTENDS Integers, Sequences, FiniteSets, TLC

(***************************************************************************)
(* Bounds of the model.                                                    *)
(***************************************************************************)
\* The search yields MaxId different tweet ids.
MaxId == 2
\* At most MaxStream posts are yielded by one search (the code asks for 50).
MaxStream == 2
\* The scheduler loop is followed for MaxCycles cycles.
MaxCycles == 2
\* len(sent_tweets) above which cleanup_old_sent_tweets compacts.  The code
\* uses 10000 (line 241); the model scales it down, keeping the relation
\* KeepCount < CleanupThreshold.
CleanupThreshold == 3
\* Number of identifiers compaction keeps.  The code keeps 8000 (line 243).
KeepCount == 2
\* SpecDeliver: a post carries at most MaxMedia media items.
MaxMedia == 2
\* SpecStore: the seen-set file has at most MaxFile lines.
MaxFile == 5
\* The longest text handed to escape_markdown_v2 on its own.
MaxText == 3

(***************************************************************************)
(* Strings                                                                 *)
(***************************************************************************)
NoneVal == [some |-> FALSE]

Some(v) == [some |-> TRUE, val |-> v]

DigitChars == <<"0", "1", "2", "3", "4", "5", "6", "7", "8", "9">>

Range(s) == {s[i] : i \in 1..Len(s)}

\* str(n) for an int n >= 0: its decimal digits.
RECURSIVE Str(_)
Str(n) == IF n < 10 THEN <<DigitChars[n + 1]>>
          ELSE Str(n \div 10) \o <<DigitChars[(n % 10) + 1]>>

\* x.isdigit(): non-empty and every character a digit. The characters of
\* the model are ASCII: a character such as a superscript two, which
\* str.isdigit accepts and int() rejects, is outside its alphabet.
isdigit(x) == Len(x) > 0 /\ \A i \in 1..Len(x) : x[i] \in Range(DigitChars)

DigitValue(c) == (CHOOSE d \in 1..10 : DigitChars[d] = c) - 1

\* int(x) for a string of digits.
RECURSIVE int(_)
int(x) == IF Len(x) = 0 THEN 0
          ELSE 10 * int(SubSeq(x, 1, Len(x) - 1)) + DigitValue(x[Len(x)])

\* The characters for which str.isspace() holds, which strip() removes: the
\* ASCII ones are the space, \t, \n, \r, \f, \x0b and \x1c to \x1f; "VT",
\* "FS", "GS", "RS" and "US" stand for the one character \x0b, \x1c, \x1d,
\* \x1e and \x1f, "NEL" and "NBSP" for \x85 and \xa0 (the other Unicode
\* spaces are not among the characters of the model).
WhitespaceChars == {" ", "\t", "\n", "\r", "\f", "VT", "FS", "GS", "RS", "US", "NEL", "NBSP"}

\* c.isspace() for one character.
IsSpace(c) == c \in WhitespaceChars

\* s.strip(): leading and trailing whitespace removed.
RECURSIVE strip(_)
strip(s) == IF Len(s) = 0 THEN s
            ELSE IF IsSpace(s[1]) THEN strip(Tail(s))
            ELSE IF IsSpace(s[Len(s)]) THEN strip(SubSeq(s, 1, Len(s) - 1))
            ELSE s

startswith(s, prefix) == Len(s) >= Len(prefix) /\ SubSeq(s, 1, Len(prefix)) = prefix

(***************************************************************************)
(* Markup sanitizer                                                        *)
(***************************************************************************)
\* The reserved characters, in the code's order.  "BACKTICK" stands for the
\* one character ` (which cannot be written in a TLA+ string).
special_chars == <<"_", "*", "[", "]", "(", ")", "~", "BACKTICK", ">", "#", "+", "-",
                   "=", "|", "{", "}", ".", "!">>

\* text.replace(char, '\\' + char)
RECURSIVE replace_char(_, _)
replace_char(text, char) ==
    IF Len(text) = 0 THEN <<>>
    ELSE (IF text[1] = char THEN <<"\\", char>> ELSE <<text[1]>>)
         \o replace_char(Tail(text), char)

\* The loop of lines 197-198 from special_chars[i] on; `replaced` is the
\* text after the replace of special_chars[i].
RECURSIVE escape_loop(_, _)
escape_loop(text, i) ==
    IF i > Len(special_chars) THEN text
    ELSE CHOOSE out \in {escape_loop(replaced, i + 1) :
                            replaced \in {replace_char(text, special_chars[i])}} : TRUE

\* escape_markdown_v2 of a string, or of None.
escape_markdown_v2(text) ==
    IF ~text.some THEN <<>>
    ELSE IF Len(text.val) = 0 THEN <<>>
    ELSE escape_loop(text.val, 1)

\* "not s" for a string or None.
no_text(s) == IF s.some THEN Len(s.val) = 0 ELSE TRUE

\* create_safe_url_link: "[label](url)" with the label escaped and the url
\* verbatim; "" without a url; the label "Link" without a display text.
create_safe_url_link(url, display_text) ==
    IF no_text(url) THEN <<>>
    ELSE LET label == IF no_text(display_text)
                      THEN Some(<<"L", "i", "n", "k">>) ELSE display_text
         IN <<"[">> \o escape_markdown_v2(label) \o <<"]", "(">> \o url.val \o <<")">>

(***************************************************************************)
(* Seen-set store                                                          *)
(***************************************************************************)
\* All orders in which a set can be iterated (a Python set of str iterates
\* in hash order, which differs from run to run).
Orders(S) == {s \in [1..Cardinality(S) -> S] : \A i, j \in 1..Cardinality(S) :
                                                  s[i] = s[j] => i = j}

\* The file is the sequence of its lines as "for line in f" yields them:
\* each with its newline, but for a last line that was never finished.
\* f"{tweet_id}\n", the text of one f.write.
Line(tweet_id) == tweet_id \o <<"\n">>

\* The line ends with its newline.
terminated(line) == Len(line) > 0 /\ line[Len(line)] = "\n"

\* The characters of text (a line, or the beginning of one) arrive at the
\* end of the file: they go on an unfinished last line, or start a line.
write_text(lines, text) ==
    IF Len(text) = 0 THEN lines
    ELSE IF Len(lines) > 0 /\ ~terminated(lines[Len(lines)])
         THEN [lines EXCEPT ![Len(lines)] = @ \o text]
         ELSE Append(lines, text)

\* What a file opened with 'w' can hold when a write or the close has
\* failed, lines being what the writes that returned had handed to the
\* buffer: any beginning of that text.
cut_short(lines) ==
    {<<>>} \cup UNION {{SubSeq(lines, 1, m - 1) \o <<SubSeq(lines[m], 1, k)>> :
                           k \in 1..Len(lines[m])} : m \in 1..Len(lines)}

\* load_sent_tweets: the stripped non-empty lines of the file.  n_read is the
\* number of lines the loop got through: all of them, or fewer when the
\* open or a read raised (the except clause then returns what was added so
\* far).
load_sent_tweets(exists, lines, n_read) ==
    IF ~exists THEN {}
    ELSE {strip(lines[i]) : i \in {j \in 1..n_read : Len(strip(lines[j])) > 0}}

\* save_sent_tweet: append one line.  n_written characters of the line
\* reach the file: all of them, or fewer when the buffered write is cut
\* short (the error is then printed and swallowed).
save_sent_tweet(lines, tweet_id, n_written) ==
    write_text(lines, SubSeq(Line(tweet_id), 1, n_written))

\* The sort key of cleanup_old_sent_tweets: int(x) if x.isdigit() else 0.
sort_key(x) == IF isdigit(x) THEN int(x) ELSE 0

\* sorted() is stable: x goes after every element whose key is <= its own.
RECURSIVE insert_by_key(_, _)
insert_by_key(sorted_seq, x) ==
    IF Len(sorted_seq) = 0 THEN <<x>>
    ELSE IF sort_key(sorted_seq[Len(sorted_seq)]) <= sort_key(x)
         THEN Append(sorted_seq, x)
         ELSE Append(insert_by_key(SubSeq(sorted_seq, 1, Len(sorted_seq) - 1), x),
                     sorted_seq[Len(sorted_seq)])

RECURSIVE sorted_from(_, _, _)
sorted_from(iteration, i, acc) ==
    IF i > Len(iteration) THEN acc
    ELSE sorted_from(iteration, i + 1, insert_by_key(acc, iteration[i]))

\* sorted(sent_tweets, key=...) for one iteration order of the set.
sorted_tweets(iteration) == sorted_from(iteration, 1, <<>>)

\* A variant of sent_tweets_to_keep that slices the other end of the list:
\* set(sorted_tweets[:8000]).
sent_tweets_to_keep_lowest(sorted_seq) ==
    {sorted_seq[i] : i \in {j \in 1..Len(sorted_seq) : j <= KeepCount}}

\* set(sorted_tweets[-8000:])
sent_tweets_to_keep(sorted_seq) ==
    {sorted_seq[i] : i \in {j \in 1..Len(sorted_seq) : j > Len(sorted_seq) - KeepCount}}

\* The test of line 241.
needs_cleanup(tweets) == Cardinality(tweets) > CleanupThreshold

(***************************************************************************)
(* Delivery client                                                         *)
(***************************************************************************)
\* What one HTTP call can meet: an acknowledged answer (2xx, "ok": true), a
\* refused one (2xx, "ok": false), a non-2xx status (raise_for_status raises
\* HTTPError), a connection error or timeout (both RequestException), and
\* an exception of another class raised inside the try block.
Responses == {"ack", "nack", "http_error", "conn_error", "other_exception"}

\* A HEAD probe: status 200, another status, or an exception.
ProbeResponses == {"200", "404", "exception"}

\* validate_media_url: True for status 200; every exception gives False.
validate_media_url(resp) == resp = "200"

\* send_telegram_photo / send_telegram_video: every exception is caught.
send_telegram_photo(resp) == IF resp = "ack" THEN "True" ELSE "False"

send_telegram_video(resp) == IF resp = "ack" THEN "True" ELSE "False"

\* send_telegram_message: only requests.exceptions.RequestException is caught.
send_telegram_message(resp) ==
    CASE resp = "ack" -> "True"
      [] resp \in {"nack", "http_error", "conn_error"} -> "False"
      [] OTHER -> "raise"

UpperChars == <<"A", "B", "C", "D", "E", "F", "G", "H", "I", "J", "K", "L", "M",
                "N", "O", "P", "Q", "R", "S", "T", "U", "V", "W", "X", "Y", "Z">>

LowerChars == <<"a", "b", "c", "d", "e", "f", "g", "h", "i", "j", "k", "l", "m",
                "n", "o", "p", "q", "r", "s", "t", "u", "v", "w", "x", "y", "z">>

\* s.lower()
lower(s) == [i \in 1..Len(s) |->
               IF s[i] \in Range(UpperChars)
               THEN LowerChars[CHOOSE k \in 1..Len(UpperChars) : UpperChars[k] = s[i]]
               ELSE s[i]]

T_unknown == <<"u", "n", "k", "n", "o", "w", "n">>
T_photo == <<"p", "h", "o", "t", "o">>
T_image == <<"i", "m", "a", "g", "e">>
T_video == <<"v", "i", "d", "e", "o">>
T_animated_gif == <<"a", "n", "i", "m", "a", "t", "e", "d", "_", "g", "i", "f">>

\* getattr(media_item, 'type', 'unknown')
type_of(media_item) == IF media_item.type.some THEN media_item.type.val ELSE T_unknown

\* The loop of lines 155-160 from item i on: one link per item that has a
\* url, labelled with the type of the item.
RECURSIVE media_links_from(_, _)
media_links_from(media_items, i) ==
    IF i > Len(media_items)
    THEN <<>>
    ELSE (IF no_text(media_items[i].url)
          THEN <<>>
          ELSE <<create_safe_url_link(media_items[i].url,
                                      Some(type_of(media_items[i])))>>)
         \o media_links_from(media_items, i + 1)

\* A variant of media_links that keeps the link of the last item only (the
\* append moved out of the loop).
media_links_last_only(media_items) ==
    LET links == media_links_from(media_items, 1)
    IN IF links = <<>> THEN <<>> ELSE <<links[Len(links)]>>

\* The fallback of lines 153-166: one link per item that has a url, added
\* to the message, which is then sent as text.
media_links(media_items) == media_links_from(media_items, 1)

text_call(message, links, resp) ==
    [op |-> "sendMessage", message |-> message, links |-> links, resp |-> resp]

\* Lines 130-131 and 141-148: the primitive the type of an item is sent
\* with, or "nothing" for a type that is neither a photo nor a video.
media_op(media_item) ==
    LET media_type == lower(type_of(media_item))
    IN IF media_type \in {T_photo, T_image} THEN "sendPhoto"
       ELSE IF media_type \in {T_video, T_animated_gif} THEN "sendVideo"
       ELSE "nothing"

\* Lines 130-139 for item i: the HEAD request it makes, if any, and whether
\* the loop goes on to send the item.
probe_media_item(media_item, i, probe_resp) ==
    LET media_url == media_item.url
        probe == [op |-> "HEAD", item |-> i, url |-> media_url.val, resp |-> probe_resp]
    IN IF no_text(media_url)
       THEN [calls |-> <<>>, sends |-> FALSE]
       ELSE IF ~validate_media_url(probe_resp)
       THEN [calls |-> <<probe>>, sends |-> FALSE]
       ELSE [calls |-> <<probe>>, sends |-> media_op(media_item) # "nothing"]

\* A variant of send_media_item without the "return True" after a send that
\* succeeded: the loop goes on with the next item.
send_media_item_goes_on(message, media_item, i, send_resp) ==
    [calls |-> <<[op |-> media_op(media_item), item |-> i, url |-> media_item.url.val,
                  caption |-> message, resp |-> send_resp]>>,
     returns |-> FALSE]

\* Lines 141-151 for item i, whose probe succeeded: the photo or video call,
\* and whether send_telegram_message_with_media returns True after it.
send_media_item(message, media_item, i, send_resp) ==
    [calls |-> <<[op |-> media_op(media_item), item |-> i, url |-> media_item.url.val,
                  caption |-> message, resp |-> send_resp]>>,
     returns |-> (IF media_op(media_item) = "sendPhoto"
                  THEN send_telegram_photo(send_resp)
                  ELSE send_telegram_video(send_resp)) = "True"]

\* "if not media_items": None or an empty list.
no_media(items) == IF items.some THEN Len(items.val) = 0 ELSE TRUE

(***************************************************************************)
(* Cycle engine: formatting                                                *)
(***************************************************************************)
NO_TEXT_CONTENT == <<"*", "N", "o", " ", "t", "e", "x", "t", " ",
                     "c", "o", "n", "t", "e", "n", "t", "*">>

HTTP_PREFIX == <<"h", "t", "t", "p", ":", "/", "/">>

HTTPS_PREFIX == <<"h", "t", "t", "p", "s", ":", "/", "/">>

TWEET_LINK == <<"T", "w", "e", "e", "t", " ", "L", "i", "n", "k">>

\* Line 388 subscripts tweet.rawContent and takes its len(): a TypeError
\* when the body is None.
print_raises(t) == ~t.rawContent.some

\* Lines 391-399, for a body that is a string.
tweet_content_display(rawContent) ==
    IF Len(rawContent) > 0
    THEN IF startswith(strip(rawContent), HTTP_PREFIX)
            \/ startswith(strip(rawContent), HTTPS_PREFIX)
         THEN create_safe_url_link(Some(strip(rawContent)), Some(TWEET_LINK))
         ELSE escape_markdown_v2(Some(rawContent))
    ELSE NO_TEXT_CONTENT

\* Lines 404-416: the parts of the message that depend on the modelled
\* fields of the tweet (its id and its body).
format_message(t) ==
    [tweet_id |-> escape_markdown_v2(Some(Str(t.id))),
     content |-> tweet_content_display(t.rawContent.val)]

\* A value of tweet.media that is a list of items, and one that is a single
\* object (isinstance(tweet.media, list) is is_list).
AsList(items) == [is_list |-> TRUE, value |-> items]

AsObject(item) == [is_list |-> FALSE, value |-> item]

\* "if tweet.media" of line 420: None and the empty list are falsy, a
\* non-empty list and an object are truthy.
media_truthy(media) ==
    IF ~media.some THEN FALSE
    ELSE IF media.val.is_list THEN Len(media.val.value) > 0
    ELSE TRUE

\* Lines 419-422: media_items stays None for a falsy tweet.media; a list is
\* handed on as it is, and a value that is not a list is wrapped into a list
\* of one.
media_items_of(t) ==
    IF ~media_truthy(t.media) THEN NoneVal
    ELSE IF t.media.val.is_list THEN Some(t.media.val.value)
    ELSE Some(<<t.media.val.value>>)

(***************************************************************************)
(* Exceptions                                                              *)
(***************************************************************************)
\* "except Exception" of line 452: every exception class but those derived
\* from BaseException only (KeyboardInterrupt, asyncio.CancelledError).
caught_by_cycle(exc) == exc \notin {"KeyboardInterrupt", "CancelledError"}

\* Where an exception raised inside the while loop of scrape_viral_tweets
\* ends (lines 342-349): KeyboardInterrupt prints the final statistics, an
\* Exception prints an error, a CancelledError is not caught at all.
raise_in_loop(exc) ==
    CASE exc = "KeyboardInterrupt" -> "interrupted"
      [] exc = "CancelledError" -> "cancelled"
      [] OTHER -> "monitoring_error"

\* Where a KeyboardInterrupt or a cancellation raised in lines 277-316
\* ends: the except clauses of lines 299 and 307 are "except Exception", and
\* the try of line 317 is not entered yet, so both leave scrape_viral_tweets;
\* the program ends without a cycle and without the final statistics.
raise_in_startup(exc) == IF exc = "CancelledError" THEN "cancelled" ELSE "uncaught"

\* Where an exception raised inside the try block of perform_scraping_cycle
\* ends: in its except clause, or in the caller.
raise_in_cycle(exc) == IF caught_by_cycle(exc) THEN "cycle_end" ELSE raise_in_loop(exc)

(***************************************************************************)
(* State                                                                   *)
(***************************************************************************)
VARIABLES
    CONTINUOUS_MONITORING, \* the configuration flag of line 62
    TELEGRAM_BOT_TOKEN,    \* the configuration string of line 38
    TELEGRAM_CHAT_ID,      \* the configuration string of line 40
    pc,                    \* where the program is
    file_exists,           \* os.path.exists(SENT_TWEETS_FILE)
    file,                  \* the lines of SENT_TWEETS_FILE
    sent_tweets,           \* the in-memory seen set
    to_keep,               \* cleanup: sent_tweets_to_keep
    to_write,              \* cleanup: the lines not yet written
    cycle_count,
    total_tweets_sent,
    tweet_count,
    new_tweets_sent,
    duplicates_skipped,
    tweet,                 \* the post being processed, or None
    telegram_message,
    media_items,
    item_index,            \* position of the loop over media_items
    success,               \* result of send_telegram_message_with_media
    calls,                 \* HTTP calls of the delivery in progress
    \* history variables (read by no action)
    loaded,                \* what load_sent_tweets returned
    file_before,           \* the file when cleanup began
    seen0,                 \* sent_tweets when the loop was entered
    file_len0,             \* Len(file) when the cycle began
    attempts,              \* calls of send_telegram_message_with_media, this cycle
    pauses,                \* asyncio.sleep(10) calls, this cycle
    delivered,             \* per tweet id, the deliveries that returned True
    cause,                 \* the exception that ended the cycle, or "none"
    io_failed,             \* some read or write of the file has failed
    init_failed,           \* which start-up step raised, or "none"
    returned,              \* what each perform_scraping_cycle call returned
    call_arg,              \* the argument of a function called on its own
    call_result            \* what it returned

vars == <<CONTINUOUS_MONITORING, TELEGRAM_BOT_TOKEN, TELEGRAM_CHAT_ID, pc,
          file_exists, file, sent_tweets, to_keep, to_write,
          cycle_count, total_tweets_sent, tweet_count, new_tweets_sent,
          duplicates_skipped, tweet, telegram_message, media_items, item_index,
          success, calls, loaded, file_before, seen0, file_len0, attempts, pauses,
          delivered, cause, io_failed, init_failed, returned,
          call_arg, call_result>>

config_vars == <<CONTINUOUS_MONITORING, TELEGRAM_BOT_TOKEN, TELEGRAM_CHAT_ID>>

call_vars == <<call_arg, call_result>>

store_vars == <<file_exists, file, sent_tweets>>

cleanup_vars == <<to_keep, to_write, file_before>>

loop_vars == <<cycle_count, total_tweets_sent, returned>>

counter_vars == <<tweet_count, new_tweets_sent, duplicates_skipped>>

post_vars == <<tweet, telegram_message, media_items>>

send_vars == <<item_index, success, calls>>

cycle_history == <<file_len0, attempts, pauses>>

(***************************************************************************)
(* Start-up: lines 277-308 of scrape_viral_tweets                          *)
(***************************************************************************)
\* sent_tweets = load_sent_tweets().  The read gets through all the lines,
\* or raises after n_read of them.
Load ==
    /\ pc = "load"
    /\ \E read_ok \in BOOLEAN, n_read \in 0..Len(file) :
          /\ read_ok => n_read = Len(file)
          /\ ~file_exists => read_ok
          /\ sent_tweets' = load_sent_tweets(file_exists, file, n_read)
          /\ io_failed' = ~read_ok
    /\ loaded' = sent_tweets'
    /\ pc' = "cleanup"
    /\ UNCHANGED <<config_vars, call_vars, file_exists, file, to_keep, to_write, loop_vars,
                   counter_vars, post_vars, send_vars, file_before, seen0,
                   cycle_history, delivered, cause, init_failed>>

\* cleanup_old_sent_tweets on a set that is not above the threshold.
CleanupSkip ==
    /\ pc = "cleanup"
    /\ ~needs_cleanup(sent_tweets)
    /\ pc' = "add_accounts"
    /\ file_before' = file
    /\ UNCHANGED <<config_vars, call_vars, store_vars, to_keep, to_write, loop_vars,
                   counter_vars, post_vars, send_vars, loaded, seen0, cycle_history,
                   delivered, cause, io_failed, init_failed>>

\* Lines 242-245: sort, slice, and open the file for writing, which empties
\* it.  The lines will be written in the iteration order of the kept set.
CleanupOpen ==
    /\ pc = "cleanup"
    /\ needs_cleanup(sent_tweets)
    /\ \E iteration \in Orders(sent_tweets) :
          /\ to_keep' = sent_tweets_to_keep(sorted_tweets(iteration))
          /\ to_write' \in Orders(to_keep')
    /\ file_before' = file
    /\ file' = <<>>
    /\ file_exists' = TRUE
    /\ pc' = "cleanup_write"
    /\ UNCHANGED <<config_vars, call_vars, sent_tweets, loop_vars, counter_vars, post_vars,
                   send_vars, loaded, seen0, cycle_history, delivered, cause,
                   io_failed, init_failed>>

\* open(SENT_TWEETS_FILE, 'w') raises: the except clause of line 251 prints
\* and the function returns the set it was given.
CleanupOpenFails ==
    /\ pc = "cleanup"
    /\ needs_cleanup(sent_tweets)
    /\ file_before' = file
    /\ io_failed' = TRUE
    /\ pc' = "add_accounts"
    /\ UNCHANGED <<config_vars, call_vars, store_vars, to_keep, to_write, loop_vars,
                   counter_vars, post_vars, send_vars, loaded, seen0, cycle_history,
                   delivered, cause, init_failed>>

\* One f.write of the loop of lines 246-247.
CleanupWriteLine ==
    /\ pc = "cleanup_write"
    /\ to_write # <<>>
    /\ file' = write_text(file, Line(Head(to_write)))
    /\ to_write' = Tail(to_write)
    /\ UNCHANGED <<config_vars, call_vars, pc, file_exists, sent_tweets, to_keep, loop_vars,
                   counter_vars, post_vars, send_vars, loaded, file_before, seen0,
                   cycle_history, delivered, cause, io_failed, init_failed>>

\* A write or the close at the end of the "with" block raises: the file
\* keeps a beginning of what was written, and the function returns the set
\* it was given (line 254).
CleanupWriteFails ==
    /\ pc = "cleanup_write"
    /\ file' \in cut_short(file)
    /\ to_write' = <<>>
    /\ to_keep' = {}
    /\ io_failed' = TRUE
    /\ pc' = "add_accounts"
    /\ UNCHANGED <<config_vars, call_vars, file_exists, sent_tweets, loop_vars,
                   counter_vars, post_vars, send_vars, loaded, file_before, seen0,
                   cycle_history, delivered, cause, init_failed>>

\* Every line is written: return sent_tweets_to_keep (line 250).
CleanupDone ==
    /\ pc = "cleanup_write"
    /\ to_write = <<>>
    /\ sent_tweets' = to_keep
    /\ to_keep' = {}
    /\ pc' = "add_accounts"
    /\ UNCHANGED <<config_vars, call_vars, file_exists, file, to_write, loop_vars,
                   counter_vars, post_vars, send_vars, loaded, file_before, seen0,
                   cycle_history, delivered, cause, io_failed, init_failed>>

\* Lines 281-298: every add_account call succeeds.
AddAccountsOk ==
    /\ pc = "add_accounts"
    /\ pc' = "login"
    /\ UNCHANGED <<config_vars, call_vars, store_vars, cleanup_vars, loop_vars, counter_vars,
                   post_vars, send_vars, loaded, seen0, cycle_history, delivered,
                   cause, io_failed, init_failed>>

\* Lines 299-301: add_account raises; the error is printed and the function
\* returns.
AddAccountsFails ==
    /\ pc = "add_accounts"
    /\ init_failed' = "add_accounts"
    /\ pc' = "aborted"
    /\ UNCHANGED <<config_vars, call_vars, store_vars, cleanup_vars, loop_vars, counter_vars,
                   post_vars, send_vars, loaded, seen0, cycle_history, delivered,
                   cause, io_failed>>

\* Lines 304-306: login_all succeeds.
LoginOk ==
    /\ pc = "login"
    /\ pc' = "enter_loop"
    /\ seen0' = sent_tweets
    /\ UNCHANGED <<config_vars, call_vars, store_vars, cleanup_vars, loop_vars, counter_vars,
                   post_vars, send_vars, loaded, cycle_history, delivered, cause,
                   io_failed, init_failed>>

\* Lines 307-308: login_all raises; the error is printed, and the function
\* goes on to line 310.
LoginFails ==
    /\ pc = "login"
    /\ init_failed' = "login"
    /\ pc' = "enter_loop"
    /\ seen0' = sent_tweets
    /\ UNCHANGED <<config_vars, call_vars, store_vars, cleanup_vars, loop_vars, counter_vars,
                   post_vars, send_vars, loaded, cycle_history, delivered, cause,
                   io_failed>>

(***************************************************************************)
(* The posts the search can yield                                          *)
(***************************************************************************)
U1 == <<"u", "1">>

\* The values of a configuration string: empty, or set.
ConfigStrings == {<<>>, <<"x">>}

\* "if TELEGRAM_BOT_TOKEN and TELEGRAM_CHAT_ID" of line 430.
credentials_configured == Len(TELEGRAM_BOT_TOKEN) > 0 /\ Len(TELEGRAM_CHAT_ID) > 0

T_Photo == <<"P", "h", "o", "t", "o">>

\* Bodies: None, the empty string, a text with a reserved character, a url
\* with whitespace around it.
RawContents == {NoneVal, Some(<<>>), Some(<<"h", "i", "!">>),
                Some(<<"\t">> \o HTTP_PREFIX \o <<"x", "\r", "\n">>)}

\* tweet.id: MaxId identifiers, 1 and numbers of two digits that begin with
\* the digit 1.
TweetIds == {1} \cup {10 + i : i \in 1..(MaxId - 1)}

\* tweet.media: nothing, a list of one photo, or one photo that is not in a
\* list.
TweetMedia == {NoneVal,
               Some(AsList(<<[type |-> Some(T_photo), url |-> Some(U1)]>>)),
               Some(AsObject([type |-> Some(T_photo), url |-> Some(U1)]))}

\* The posts.  With the identifier 1: every body on a post without media,
\* and every media on a post with the ordinary body (lines 388-416 format
\* the body and lines 419-427 handle the media, neither reads what the other
\* reads).  With the other identifiers: a post without media, with no body
\* or the ordinary one.
Tweets == {t \in [id : TweetIds, rawContent : RawContents, media : TweetMedia] :
              /\ ~t.media.some \/ t.rawContent = Some(<<"h", "i", "!">>)
              /\ t.id = 1 \/ (~t.media.some /\
                                t.rawContent \in {NoneVal, Some(<<"h", "i", "!">>)})}

tweet_id_str == Str(tweet.val.id)

(***************************************************************************)
(* The scheduler loop and one cycle: lines 310-349 and 351-460             *)
(***************************************************************************)
\* Lines 310-317: cycle_count and total_tweets_sent are set to 0 and the
\* try block of the loop is entered.
EnterLoop ==
    /\ pc = "enter_loop"
    /\ cycle_count' = 0
    /\ total_tweets_sent' = 0
    /\ pc' = "loop"
    /\ UNCHANGED <<config_vars, call_vars, store_vars, cleanup_vars, returned, counter_vars,
                   post_vars, send_vars, loaded, seen0, cycle_history, delivered,
                   cause, io_failed, init_failed>>

\* Line 319: a new iteration of "while True" begins.
StartCycle ==
    /\ pc = "loop"
    /\ cycle_count < MaxCycles
    /\ cycle_count' = cycle_count + 1
    /\ pc' = "call_cycle"
    /\ UNCHANGED <<config_vars, call_vars, store_vars, cleanup_vars, total_tweets_sent,
                   returned, counter_vars, post_vars, send_vars, loaded, seen0,
                   cycle_history, delivered, cause, io_failed, init_failed>>

\* Lines 320-326 and 353-373: perform_scraping_cycle is called; it builds
\* the query, zeroes its counters and enters its try block.
CallCycle ==
    /\ pc = "call_cycle"
    /\ tweet_count' = 0
    /\ new_tweets_sent' = 0
    /\ duplicates_skipped' = 0
    /\ file_len0' = Len(file)
    /\ attempts' = 0
    /\ pauses' = 0
    /\ cause' = "none"
    /\ pc' = "iter"
    /\ UNCHANGED <<config_vars, call_vars, store_vars, cleanup_vars, loop_vars, post_vars,
                   send_vars, loaded, seen0, delivered, io_failed, init_failed>>

\* A variant of already_sent that takes no post for a duplicate.
already_sent_never(tweet_id, tweets) == FALSE

\* Line 378: "if tweet_id_str in sent_tweets".
already_sent(tweet_id, tweets) == tweet_id \in tweets

\* Lines 374-376: the search yields t, which is counted.
Examine ==
    /\ pc = "iter"
    /\ tweet_count < MaxStream
    /\ \E t \in Tweets : tweet' = Some(t)
    /\ tweet_count' = tweet_count + 1
    /\ pc' = "examine"
    /\ UNCHANGED <<config_vars, call_vars, store_vars, cleanup_vars, loop_vars,
                   new_tweets_sent, duplicates_skipped, telegram_message, media_items,
                   send_vars, loaded, seen0, cycle_history, delivered, cause,
                   io_failed, init_failed>>

\* Lines 378-381: the identifier is in sent_tweets; the post is counted as
\* a duplicate and the loop continues.
SkipDuplicate ==
    /\ pc = "examine"
    /\ already_sent(tweet_id_str, sent_tweets)
    /\ duplicates_skipped' = duplicates_skipped + 1
    /\ tweet' = NoneVal
    /\ pc' = "iter"
    /\ UNCHANGED <<config_vars, call_vars, store_vars, cleanup_vars, loop_vars, tweet_count,
                   new_tweets_sent, telegram_message, media_items, send_vars, loaded,
                   seen0, cycle_history, delivered, cause, io_failed, init_failed>>

\* Lines 383-388 for a post whose body is None: the print of line 388
\* raises, and the exception goes to the except clause of line 452.
PostFaults ==
    /\ pc = "examine"
    /\ ~already_sent(tweet_id_str, sent_tweets)
    /\ print_raises(tweet.val)
    /\ cause' = "post_fault"
    /\ pc' = raise_in_cycle("TypeError")
    /\ UNCHANGED <<config_vars, call_vars, store_vars, cleanup_vars, loop_vars, counter_vars,
                   post_vars, send_vars, loaded, seen0, cycle_history, delivered,
                   io_failed, init_failed>>

\* Lines 383-416: the post is printed and the message is formatted.
FormatMessage ==
    /\ pc = "examine"
    /\ ~already_sent(tweet_id_str, sent_tweets)
    /\ ~print_raises(tweet.val)
    /\ telegram_message' = Some(format_message(tweet.val))
    /\ pc' = "handle_media"
    /\ UNCHANGED <<config_vars, call_vars, store_vars, cleanup_vars, loop_vars, counter_vars,
                   tweet, media_items, send_vars, loaded, seen0, cycle_history,
                   delivered, cause, io_failed, init_failed>>

\* Lines 419-422: media_items is set from tweet.media.
HandleMedia ==
    /\ pc = "handle_media"
    /\ media_items' = media_items_of(tweet.val)
    /\ pc' = IF media_truthy(tweet.val.media) THEN "probe" ELSE "send"
    /\ UNCHANGED <<config_vars, call_vars, store_vars, cleanup_vars, loop_vars, counter_vars,
                   tweet, telegram_message, send_vars, loaded, seen0, cycle_history,
                   delivered, cause, io_failed, init_failed>>

\* The search is exhausted: the "async for" ends.
StreamEnds ==
    /\ pc = "iter"
    /\ pc' = "cycle_end"
    /\ UNCHANGED <<config_vars, call_vars, store_vars, cleanup_vars, loop_vars, counter_vars,
                   post_vars, send_vars, loaded, seen0, cycle_history, delivered,
                   cause, io_failed, init_failed>>

\* The search raises while the stream is iterated.
StreamFaults ==
    /\ pc = "iter"
    /\ cause' = "stream_fault"
    /\ pc' = raise_in_cycle("SearchError")
    /\ UNCHANGED <<config_vars, call_vars, store_vars, cleanup_vars, loop_vars, counter_vars,
                   post_vars, send_vars, loaded, seen0, cycle_history, delivered,
                   io_failed, init_failed>>

\* Lines 424-427: get_best_media_url of every item; the result is printed
\* and used by nothing else.
ProbeMedia ==
    /\ pc = "probe"
    /\ pc' = "send"
    /\ UNCHANGED <<config_vars, call_vars, store_vars, cleanup_vars, loop_vars, counter_vars,
                   post_vars, send_vars, loaded, seen0, cycle_history, delivered,
                   cause, io_failed, init_failed>>

\* The end of send_telegram_message_with_media with `result`: "True" and
\* "False" go to line 439, an exception to the handler that catches it.
finish_send(result) ==
    /\ success' = IF result = "raise" THEN "none" ELSE result
    /\ pc' = IF result = "raise" THEN raise_in_cycle("OtherException") ELSE "record"
    /\ cause' = IF result = "raise" THEN "send_raise" ELSE cause
    /\ delivered' = IF result = "True"
                    THEN [delivered EXCEPT ![tweet.val.id] = @ + 1] ELSE delivered

\* Lines 449-450: without the credentials nothing is sent, and the loop goes
\* on with the next post.
NoCredentials ==
    /\ pc = "send"
    /\ ~credentials_configured
    /\ tweet' = NoneVal
    /\ telegram_message' = NoneVal
    /\ media_items' = NoneVal
    /\ pc' = "iter"
    /\ UNCHANGED <<config_vars, call_vars, store_vars, cleanup_vars, loop_vars, counter_vars,
                   send_vars, loaded, seen0, cycle_history, delivered, cause,
                   io_failed, init_failed>>

\* Lines 125-126: no media, one text message.
DeliverText ==
    /\ pc = "send"
    /\ credentials_configured
    /\ no_media(media_items)
    /\ attempts' = attempts + 1
    /\ \E resp \in Responses :
          /\ calls' = <<text_call(telegram_message.val, <<>>, resp)>>
          /\ finish_send(send_telegram_message(resp))
    /\ UNCHANGED <<config_vars, call_vars, store_vars, cleanup_vars, loop_vars, counter_vars,
                   post_vars, item_index, loaded, seen0, file_len0, pauses,
                   io_failed, init_failed>>

\* Line 129: the loop over media_items begins.
DeliverBegin ==
    /\ pc = "send"
    /\ credentials_configured
    /\ ~no_media(media_items)
    /\ attempts' = attempts + 1
    /\ item_index' = 1
    /\ calls' = <<>>
    /\ pc' = "media"
    /\ UNCHANGED <<config_vars, call_vars, store_vars, cleanup_vars, loop_vars, counter_vars,
                   post_vars, success, loaded, seen0, file_len0, pauses,
                   delivered, cause, io_failed, init_failed>>

\* Lines 129-139 for one item: its url is read and, when there is one,
\* probed (the await of line 137).
TryMedia ==
    /\ pc = "media"
    /\ item_index <= Len(media_items.val)
    /\ \E probe_resp \in ProbeResponses :
          LET r == probe_media_item(media_items.val[item_index], item_index, probe_resp)
          IN /\ calls' = calls \o r.calls
             /\ IF r.sends
                THEN pc' = "media_send" /\ UNCHANGED item_index
                ELSE item_index' = item_index + 1 /\ UNCHANGED pc
    /\ UNCHANGED <<config_vars, call_vars, store_vars, cleanup_vars, loop_vars, counter_vars,
                   post_vars, success, delivered, cause, loaded, seen0, cycle_history,
                   io_failed, init_failed>>

\* Lines 141-151 for the item that was probed: the photo or video call; a
\* call that succeeds ends the delivery, another goes on with the next item.
SendMedia ==
    /\ pc = "media_send"
    /\ \E send_resp \in Responses :
          LET r == send_media_item(telegram_message.val, media_items.val[item_index],
                                   item_index, send_resp)
          IN /\ calls' = calls \o r.calls
             /\ IF r.returns
                THEN finish_send("True") /\ UNCHANGED item_index
                ELSE /\ item_index' = item_index + 1
                     /\ pc' = "media"
                     /\ UNCHANGED <<success, delivered, cause>>
    /\ UNCHANGED <<config_vars, call_vars, store_vars, cleanup_vars, loop_vars, counter_vars,
                   post_vars, loaded, seen0, cycle_history, io_failed, init_failed>>

\* Lines 153-166: no item was sent; the text with the links.
Fallback ==
    /\ pc = "media"
    /\ item_index > Len(media_items.val)
    /\ \E resp \in Responses :
          /\ calls' = Append(calls, text_call(telegram_message.val,
                                              media_links(media_items.val), resp))
          /\ finish_send(send_telegram_message(resp))
    /\ UNCHANGED <<config_vars, call_vars, store_vars, cleanup_vars, loop_vars, counter_vars,
                   post_vars, item_index, loaded, seen0, cycle_history, io_failed,
                   init_failed>>

\* sent_tweets.add of line 441.
add_if_success(tweets, result, tweet_id) ==
    IF result = "True" THEN tweets \cup {tweet_id} ELSE tweets

\* Lines 439-441 and 444-445: "if success", then sent_tweets.add; a
\* delivery that failed is printed only.
Record ==
    /\ pc = "record"
    /\ sent_tweets' = add_if_success(sent_tweets, success, tweet_id_str)
    /\ calls' = <<>>
    /\ pc' = IF success = "True" THEN "save_open" ELSE "pause"
    /\ UNCHANGED <<config_vars, call_vars, file_exists, file, cleanup_vars, loop_vars,
                   counter_vars, post_vars, item_index, success, loaded, seen0,
                   cycle_history, delivered, cause, io_failed, init_failed>>

\* Line 442, save_sent_tweet up to open(SENT_TWEETS_FILE, 'a'): the open
\* creates the file when it is absent; when it raises, the error is printed
\* and save_sent_tweet returns.
SaveOpen ==
    /\ pc = "save_open"
    /\ \E io_ok \in BOOLEAN :
          /\ file_exists' = (file_exists \/ io_ok)
          /\ io_failed' = (io_failed \/ ~io_ok)
          /\ pc' = IF io_ok THEN "save_write" ELSE "count"
    /\ UNCHANGED <<config_vars, call_vars, file, sent_tweets, cleanup_vars, loop_vars,
                   counter_vars, post_vars, send_vars, loaded, seen0, file_len0,
                   attempts, pauses, delivered, cause, init_failed>>

\* Line 442, the write of save_sent_tweet into the open file and the close
\* of the "with" block: the whole line reaches the file, or the buffered
\* write is cut short after n_written characters; a failure is printed and
\* swallowed, and can also be reported after every character was written.
SaveWrite ==
    /\ pc = "save_write"
    /\ \E n_written \in 0..Len(Line(tweet_id_str)), io_ok \in BOOLEAN :
          /\ n_written < Len(Line(tweet_id_str)) => ~io_ok
          /\ file' = save_sent_tweet(file, tweet_id_str, n_written)
          /\ io_failed' = (io_failed \/ ~io_ok)
    /\ pc' = "count"
    /\ UNCHANGED <<config_vars, call_vars, file_exists, sent_tweets, cleanup_vars,
                   loop_vars, counter_vars, post_vars, send_vars, loaded, seen0,
                   file_len0, attempts, pauses, delivered, cause, init_failed>>

\* Line 443: new_tweets_sent += 1.
Count ==
    /\ pc = "count"
    /\ new_tweets_sent' = new_tweets_sent + 1
    /\ pc' = "pause"
    /\ UNCHANGED <<config_vars, call_vars, store_vars, cleanup_vars, loop_vars, tweet_count,
                   duplicates_skipped, post_vars, send_vars, loaded, seen0,
                   cycle_history, delivered, cause, io_failed, init_failed>>

\* Lines 447-448: asyncio.sleep(10), after the if/else on success.
Pause ==
    /\ pc = "pause"
    /\ pauses' = pauses + 1
    /\ tweet' = NoneVal
    /\ telegram_message' = NoneVal
    /\ media_items' = NoneVal
    /\ item_index' = 0
    /\ success' = "none"
    /\ pc' = "iter"
    /\ UNCHANGED <<config_vars, call_vars, store_vars, cleanup_vars, loop_vars, counter_vars,
                   calls, loaded, seen0, file_len0, attempts,
                   delivered, cause, io_failed, init_failed>>

\* A variant of after_cycle that leaves the loop in both modes.
after_cycle_breaks(continuous) == "done"

\* Lines 333-340: "if not CONTINUOUS_MONITORING: break", else the sleep.
after_cycle(continuous) == IF continuous THEN "sleep" ELSE "done"

\* A variant of accumulate that keeps the count of the last cycle only.
accumulate_last(total, new_tweets_found) == new_tweets_found

\* Line 327: total_tweets_sent += new_tweets_found.
accumulate(total, new_tweets_found) == total + new_tweets_found

\* Lines 455-460: the results of the cycle are printed and
\* perform_scraping_cycle returns new_tweets_sent.
CycleReturn ==
    /\ pc = "cycle_end"
    /\ returned' = Append(returned, new_tweets_sent)
    /\ tweet' = NoneVal
    /\ telegram_message' = NoneVal
    /\ media_items' = NoneVal
    /\ item_index' = 0
    /\ success' = "none"
    /\ calls' = <<>>
    /\ pc' = "accumulate"
    /\ UNCHANGED <<config_vars, call_vars, store_vars, cleanup_vars, cycle_count,
                   total_tweets_sent, counter_vars, loaded, seen0, cycle_history,
                   delivered, cause, io_failed, init_failed>>

\* Line 327: the count the cycle returned is added to the total.
Accumulate ==
    /\ pc = "accumulate"
    /\ total_tweets_sent' = accumulate(total_tweets_sent, returned[Len(returned)])
    /\ pc' = "summary"
    /\ UNCHANGED <<config_vars, call_vars, store_vars, cleanup_vars, cycle_count, returned,
                   counter_vars, post_vars, send_vars, loaded, seen0, cycle_history,
                   delivered, cause, io_failed, init_failed>>

\* Lines 329-338: the summary of the cycle is printed; single-shot mode
\* leaves the loop, continuous mode goes to the sleep.
AfterCycle ==
    /\ pc = "summary"
    /\ pc' = after_cycle(CONTINUOUS_MONITORING)
    /\ UNCHANGED <<config_vars, call_vars, store_vars, cleanup_vars, loop_vars, counter_vars,
                   post_vars, send_vars, loaded, seen0, cycle_history, delivered,
                   cause, io_failed, init_failed>>

\* Line 340: asyncio.sleep(CHECK_INTERVAL_MINUTES * 60).
Sleep ==
    /\ pc = "sleep"
    /\ pc' = "loop"
    /\ UNCHANGED <<config_vars, call_vars, store_vars, cleanup_vars, loop_vars, counter_vars,
                   post_vars, send_vars, loaded, seen0, cycle_history, delivered,
                   cause, io_failed, init_failed>>

\* Inside the try block of perform_scraping_cycle.
InCycle == {"iter", "examine", "handle_media", "probe", "send", "media", "media_send",
            "record", "save_open", "save_write", "count", "pause"}

\* Inside the try block of the loop (line 317) and outside that of
\* perform_scraping_cycle.
InLoop == {"loop", "call_cycle", "cycle_end", "accumulate", "summary", "sleep"}

\* The start-up, lines 277-316, which no try block of the loop covers.
StartUp == {"load", "cleanup", "cleanup_write", "add_accounts", "login", "enter_loop"}

\* Where the coroutine is suspended in the event loop: add_account and
\* login_all, the search, the HEAD probes (aiohttp) and the two sleeps.
AwaitPoints == {"add_accounts", "login", "iter", "probe", "media", "pause", "sleep"}

\* Ctrl+C.  It reaches the code as a KeyboardInterrupt raised wherever the
\* main thread is, or (asyncio.run of Python 3.11 and later) as the
\* cancellation of the task at the await it is suspended in.  It can come
\* at any statement from line 277 on.
Interrupt ==
    /\ pc \in StartUp \cup InCycle \cup InLoop
    /\ \E exc \in IF pc \in AwaitPoints THEN {"KeyboardInterrupt", "CancelledError"}
                  ELSE {"KeyboardInterrupt"} :
          /\ cause' = exc
          /\ pc' = IF pc \in StartUp THEN raise_in_startup(exc)
                   ELSE IF pc \in InCycle THEN raise_in_cycle(exc)
                   ELSE raise_in_loop(exc)
    /\ UNCHANGED <<config_vars, call_vars, store_vars, cleanup_vars, loop_vars, counter_vars,
                   post_vars, send_vars, loaded, seen0, cycle_history, delivered,
                   io_failed, init_failed>>

(***************************************************************************)
(* Specifications                                                          *)
(***************************************************************************)
InitProgram ==
    /\ sent_tweets = {}
    /\ to_keep = {}
    /\ to_write = <<>>
    /\ cycle_count = 0
    /\ total_tweets_sent = 0
    /\ tweet_count = 0
    /\ new_tweets_sent = 0
    /\ duplicates_skipped = 0
    /\ tweet = NoneVal
    /\ telegram_message = NoneVal
    /\ media_items = NoneVal
    /\ item_index = 0
    /\ success = "none"
    /\ calls = <<>>
    /\ loaded = {}
    /\ file_before = <<>>
    /\ seen0 = {}
    /\ file_len0 = 0
    /\ attempts = 0
    /\ pauses = 0
    /\ delivered = [i \in TweetIds |-> 0]
    /\ cause = "none"
    /\ io_failed = FALSE
    /\ init_failed = "none"
    /\ returned = <<>>

\* The program before its first statement; no function is being looked at
\* on its own.
InitRest ==
    /\ InitProgram
    /\ call_arg = NoneVal
    /\ call_result = NoneVal

\* The seen-set files the program is started with: none, one with the first
\* tweet id, and one with more identifiers than the threshold (this one for
\* a single-shot run with the credentials configured).
MainFiles == {[exists |-> FALSE, lines |-> <<>>],
              [exists |-> TRUE, lines |-> <<Line(Str(1))>>],
              [exists |-> TRUE, lines |-> [i \in 1..(CleanupThreshold + 1) |-> Line(Str(i))]]}

Init ==
    /\ pc = "load"
    /\ CONTINUOUS_MONITORING \in BOOLEAN
    /\ TELEGRAM_BOT_TOKEN \in ConfigStrings
    /\ TELEGRAM_CHAT_ID \in ConfigStrings
    /\ \E f \in MainFiles : file_exists = f.exists /\ file = f.lines
    /\ Len(file) > 1 => (~CONTINUOUS_MONITORING /\ credentials_configured)
    /\ InitRest

Next ==
    \/ Load
    \/ CleanupSkip
    \/ CleanupOpen
    \/ CleanupOpenFails
    \/ CleanupWriteLine
    \/ CleanupWriteFails
    \/ CleanupDone
    \/ AddAccountsOk
    \/ AddAccountsFails
    \/ LoginOk
    \/ LoginFails
    \/ EnterLoop
    \/ StartCycle
    \/ CallCycle
    \/ Examine
    \/ SkipDuplicate
    \/ PostFaults
    \/ FormatMessage
    \/ HandleMedia
    \/ StreamEnds
    \/ StreamFaults
    \/ ProbeMedia
    \/ NoCredentials
    \/ DeliverText
    \/ DeliverBegin
    \/ TryMedia
    \/ SendMedia
    \/ Fallback
    \/ Record
    \/ SaveOpen
    \/ SaveWrite
    \/ Count
    \/ Pause
    \/ CycleReturn
    \/ Accumulate
    \/ AfterCycle
    \/ Sleep
    \/ Interrupt

\* scrape_viral_tweets, from its first line.
Spec == Init /\ [][Next]_vars

(***************************************************************************)
(* SpecDeliver: send_telegram_message_with_media alone, called with every  *)
(* media list of at most MaxMedia items.                                   *)
(***************************************************************************)
\* The type attribute: absent, or one of these strings.
MediaTypes == {NoneVal, Some(T_Photo), Some(T_image), Some(T_video), Some(T_animated_gif)}

\* The url attribute: absent, or a url.
MediaUrls == {NoneVal, Some(U1)}

MediaItems == [type : MediaTypes, url : MediaUrls]

MediaLists == UNION {[1..n -> MediaItems] : n \in 0..MaxMedia}

DeliverTweet(items) ==
    [id |-> 1, rawContent |-> Some(<<"h", "i", "!">>),
     media |-> IF items.some THEN Some(AsList(items.val)) ELSE NoneVal]

InitDeliverOf(item_lists) ==
    /\ pc = "send"
    /\ CONTINUOUS_MONITORING = TRUE
    /\ TELEGRAM_BOT_TOKEN = <<"x">>
    /\ TELEGRAM_CHAT_ID = <<"x">>
    /\ file_exists = FALSE
    /\ file = <<>>
    /\ sent_tweets = {}
    /\ to_keep = {}
    /\ to_write = <<>>
    /\ cycle_count = 1
    /\ total_tweets_sent = 0
    /\ tweet_count = 1
    /\ new_tweets_sent = 0
    /\ duplicates_skipped = 0
    /\ \E items \in {NoneVal} \cup {Some(l) : l \in item_lists} :
          /\ tweet = Some(DeliverTweet(items))
          /\ media_items = items
          /\ telegram_message = Some(format_message(DeliverTweet(items)))
    /\ item_index = 0
    /\ success = "none"
    /\ calls = <<>>
    /\ loaded = {}
    /\ file_before = <<>>
    /\ seen0 = {}
    /\ file_len0 = 0
    /\ attempts = 0
    /\ pauses = 0
    /\ delivered = [i \in TweetIds |-> 0]
    /\ cause = "none"
    /\ io_failed = FALSE
    /\ init_failed = "none"
    /\ returned = <<>>
    /\ call_arg = NoneVal
    /\ call_result = NoneVal

InitDeliver == InitDeliverOf(MediaLists)

NextDeliver ==
    \/ DeliverText
    \/ DeliverBegin
    \/ TryMedia
    \/ SendMedia
    \/ Fallback

SpecDeliver == InitDeliver /\ [][NextDeliver]_vars

(***************************************************************************)
(* SpecStore: load_sent_tweets and cleanup_old_sent_tweets at start-up, on *)
(* files of at most MaxFile lines.                                         *)
(***************************************************************************)
\* The lines a file can hold: the identifier 0, two that are not numbers,
\* two numbers, a number with a space before it, and an empty line.
StoreLines == <<<<"0">>, <<"a">>, <<"b">>, <<"5">>, <<"7">>, <<" ", "7">>, <<>>>>

\* The files: the lines above, any number of times each, in that order.
StoreFiles ==
    UNION {{[i \in 1..n |-> Line(StoreLines[f[i]])] :
              f \in {g \in [1..n -> 1..Len(StoreLines)] :
                        \A i \in 1..n : \A j \in 1..n : i < j => g[i] <= g[j]}} :
           n \in 0..MaxFile}

InitStore ==
    /\ pc = "load"
    /\ CONTINUOUS_MONITORING = TRUE
    /\ TELEGRAM_BOT_TOKEN = <<"x">>
    /\ TELEGRAM_CHAT_ID = <<"x">>
    /\ file \in StoreFiles
    /\ file_exists \in (IF file = <<>> THEN BOOLEAN ELSE {TRUE})
    /\ InitRest

NextStore ==
    \/ Load
    \/ CleanupSkip
    \/ CleanupOpen
    \/ CleanupOpenFails
    \/ CleanupWriteLine
    \/ CleanupWriteFails
    \/ CleanupDone

SpecStore == InitStore /\ [][NextStore]_vars

(***************************************************************************)
(* Properties                                                              *)
(***************************************************************************)
\* The identifiers in the file, as load_sent_tweets reads them.
ids_in_file == load_sent_tweets(TRUE, file, Len(file))

\* The identifiers of the posts whose delivery returned True in this run.
delivered_ids == {Str(i) : i \in {j \in TweetIds : delivered[j] > 0}}

\* The identifiers in the lines the file has gained since the cycle began.
appended == {strip(file[i]) : i \in {j \in (file_len0 + 1)..Len(file) :
                                       Len(strip(file[j])) > 0}}

\* The scheduler loop, between two posts or between two cycles.
BetweenPosts == InLoop \cup {"iter", "done"}

\* A post is being handled and its identifier is not being recorded: from
\* the duplicate check to the return of the delivery, and from the return
\* of save_sent_tweet on.
HandlingPost == {"examine", "handle_media", "probe", "send", "media", "media_send",
                 "count", "pause"}

\* The identifier of the post being handled, if there is one.
current_id == IF tweet.some THEN {tweet_id_str} ELSE {}

\* C1: with the credentials configured, for every post the search yielded
\* and the cycle is done with, a delivery was attempted if and only if its
\* identifier was not in the seen set when it was examined: the attempts of
\* the cycle are as many as the posts examined that were not duplicates.
C1_AttemptIffUnseen ==
    (credentials_configured /\ pc \in {"iter", "cycle_end"}) =>
       attempts = tweet_count - duplicates_skipped

\* The half of C1 the code keeps: a delivery is attempted only for a post
\* whose identifier is not in the seen set, and a duplicate is counted and
\* causes no send, no store write and no pause.
C1_OnlyUnseen ==
    /\ [][(attempts' = attempts + 1) =>
            tweet.some /\ tweet_id_str \notin sent_tweets]_vars
    /\ [][(duplicates_skipped' = duplicates_skipped + 1) =>
            /\ pc' = "iter"
            /\ UNCHANGED <<attempts, pauses, store_vars, delivered>>]_vars

\* C2: an identifier is recorded, in the in-memory seen set and in the
\* file, only for a post whose delivery returned True, and after a delivery
\* that returned True the identifier is in the in-memory set before the next
\* post is examined.  (That a write of the file which fails adds nothing to
\* the file is left aside: the storage policy of the specification accepts
\* it.)
C2_RecordedIffDelivered ==
    /\ pc \in BetweenPosts \cup HandlingPost \cup {"save_open", "save_write"} =>
          sent_tweets = seen0 \cup delivered_ids
    /\ (cycle_count > 0 /\ pc \in (BetweenPosts \cup InCycle) \ {"call_cycle"}) =>
          appended \subseteq delivered_ids

\* The part of C2 the code keeps, the in-memory seen set: between posts it
\* is the set at start-up plus exactly the identifiers whose delivery
\* returned True, and at every moment of a cycle it holds nothing else and
\* lacks at most the identifier of the post whose delivery has just returned
\* True.
C2_InMemoryIffDelivered ==
    /\ pc \in BetweenPosts \cup HandlingPost \cup {"save_open", "save_write"} =>
          sent_tweets = seen0 \cup delivered_ids
    /\ cycle_count > 0 =>
          /\ sent_tweets \subseteq seen0 \cup delivered_ids
          /\ (seen0 \cup delivered_ids) \ sent_tweets \subseteq current_id

\* The states right after a mutation of the seen set in a cycle: an add
\* after a delivery that returned True, once save_sent_tweet has returned.
AfterMutation == pc \in {"count", "pause"} /\ success = "True"

\* The load read every line of the file and no compaction was needed: the
\* loop was entered with the seen set and the file holding the same
\* identifiers.
StartedEqual ==
    /\ loaded = load_sent_tweets(TRUE, file_before, Len(file_before))
    /\ ~needs_cleanup(loaded)

\* C3: after a mutation of the seen set the in-memory set and the file hold
\* the same identifiers; here, the half that a write which fails and adds
\* nothing to the file (accepted by the storage policy of the
\* specification) cannot break: the file holds no identifier that the set
\* lacks.
C3_StoreConverges ==
    (AfterMutation /\ StartedEqual) => ids_in_file \subseteq sent_tweets

\* C4: a fault raised while one post is processed skips that post only (the
\* loop goes on with the next post of the stream), and a post with an absent
\* body is delivered with the "no content" marker instead of faulting.
\* (Steps of an interrupt are left aside.)
C4_FaultSkipsOnePost ==
    [][(pc = "examine" /\ cause' \notin {"KeyboardInterrupt", "CancelledError"}) =>
          /\ pc' \in {"iter", "handle_media"}
          /\ (pc' = "handle_media" /\ ~tweet.val.rawContent.some) =>
                (telegram_message'.some /\ telegram_message'.val.content = NO_TEXT_CONTENT)]_vars

\* Interrupts, which "except Exception" does not catch.
Interrupts == {"KeyboardInterrupt", "CancelledError"}

\* C5: a fault of the stream ends the cycle with what it did so far kept,
\* the cycle returns its count of sent posts to the loop, which goes on, and
\* no exception of any kind leaves perform_scraping_cycle.
C5_NothingLeavesCycle ==
    /\ [][(pc = "iter" /\ cause' = "stream_fault") =>
            pc' = "cycle_end" /\ UNCHANGED <<store_vars, counter_vars, delivered>>]_vars
    /\ [][(pc \in InCycle) => (pc' \in InCycle \cup {"cycle_end"})]_vars
    /\ [][(pc = "cycle_end") =>
            (pc' = "accumulate" /\ returned' = Append(returned, new_tweets_sent))]_vars
    /\ [][(pc = "accumulate") =>
            /\ total_tweets_sent' = total_tweets_sent + returned[Len(returned)]
            /\ pc' = "summary"]_vars
    /\ [][(pc = "summary") =>
            pc' = (IF CONTINUOUS_MONITORING THEN "sleep" ELSE "done")]_vars

\* The part of C5 the code keeps: the same for every exception but a
\* KeyboardInterrupt and a cancellation, which leave perform_scraping_cycle
\* and end the loop.
C5_FaultEndsCycleOnly ==
    /\ [][(pc = "iter" /\ cause' = "stream_fault") =>
            pc' = "cycle_end" /\ UNCHANGED <<store_vars, counter_vars, delivered>>]_vars
    /\ [][(pc \in InCycle /\ cause' \notin Interrupts) =>
            pc' \in InCycle \cup {"cycle_end"}]_vars
    /\ [][(pc = "cycle_end" /\ cause' \notin Interrupts) =>
            (pc' = "accumulate" /\ returned' = Append(returned, new_tweets_sent))]_vars
    /\ [][(pc = "accumulate" /\ cause' \notin Interrupts) =>
            /\ total_tweets_sent' = total_tweets_sent + returned[Len(returned)]
            /\ pc' = "summary"]_vars
    /\ [][(pc = "summary" /\ cause' \notin Interrupts) =>
            pc' = (IF CONTINUOUS_MONITORING THEN "sleep" ELSE "done")]_vars
    /\ [][(cause' \in Interrupts /\ pc \notin StartUp) =>
            (pc' \in {"interrupted", "cancelled"})]_vars

\* The calls of the delivery in progress that send a photo or a video.
MediaSends == {i \in 1..Len(calls) : calls[i].op \in {"sendPhoto", "sendVideo"}}

\* The calls that send a text message.
TextSends == {i \in 1..Len(calls) : calls[i].op = "sendMessage"}

\* The media sends the channel acknowledged.
AckedSends == {i \in MediaSends : calls[i].resp = "ack"}

\* The delivery has returned a value.
Returned == pc = "record"

\* C6: with a media list, the items are tried in their order, each with its
\* own url; an item whose probe fails gets no send; the first acknowledged
\* photo or video send is the last call, the delivery returns True and sends
\* no text; at most one media send is acknowledged per delivery; and without
\* an acknowledged media send the delivery does not return before the text.
C6_FirstSuccessEnds ==
    /\ \A i \in 1..Len(calls) : \A j \in 1..Len(calls) :
          (i < j /\ i \notin TextSends /\ j \notin TextSends) =>
             /\ calls[i].item <= calls[j].item
             /\ (calls[i].item = calls[j].item) =>
                   (j = i + 1 /\ calls[i].op = "HEAD" /\ calls[j].op # "HEAD")
    /\ \A i \in 1..Len(calls) : i \notin TextSends =>
          /\ calls[i].item \in 1..Len(media_items.val)
          /\ Some(calls[i].url) = media_items.val[calls[i].item].url
    /\ \A i \in MediaSends :
          /\ i > 1
          /\ calls[i - 1].op = "HEAD"
          /\ calls[i - 1].item = calls[i].item
          /\ calls[i - 1].resp = "200"
          /\ calls[i].caption = telegram_message.val
    /\ \A i \in AckedSends :
          /\ i = Len(calls)
          /\ Returned
          /\ success = "True"
          /\ TextSends = {}
    /\ Cardinality(AckedSends) <= 1
    /\ (Returned /\ AckedSends = {}) => TextSends = {Len(calls)}

\* Two items: the probe of the first fails, the second is probed and its
\* send is acknowledged; one media message, no text, and the result is True.
C6_Witness ==
    /\ Returned
    /\ success = "True"
    /\ ~no_media(media_items)
    /\ Len(media_items.val) = 2
    /\ Len(calls) = 3
    /\ calls[1].op = "HEAD" /\ calls[1].item = 1 /\ calls[1].resp # "200"
    /\ calls[2].op = "HEAD" /\ calls[2].item = 2 /\ calls[2].resp = "200"
    /\ calls[3].op \in {"sendPhoto", "sendVideo"} /\ calls[3].item = 2
    /\ calls[3].resp = "ack"

\* The items of the list handed to the delivery that have a url.
ItemsWithUrl == {i \in 1..Len(media_items.val) : ~no_text(media_items.val[i].url)}

\* The delivery is over: it returned, or its text send raised.
DeliveryOver == pc \in {"record", "cycle_end"}

\* What C7 says of a delivery in which no media send was acknowledged, but
\* for the number of links: one text message, the last call, with the
\* original message, and the result of the delivery is the result of that
\* send; without media, that text message is the only call.
TextFallback ==
    (DeliveryOver /\ AckedSends = {}) =>
       /\ TextSends = {Len(calls)}
       /\ calls[Len(calls)].message = telegram_message.val
       /\ (pc = "record") => (success = send_telegram_message(calls[Len(calls)].resp))
       /\ (pc = "cycle_end") => (send_telegram_message(calls[Len(calls)].resp) = "raise")
       /\ no_media(media_items) => (Len(calls) = 1 /\ calls[1].links = <<>>)

\* C7, as stated: the text message of the fallback carries one hyperlink
\* per media item of the list.
C7_Original ==
    /\ TextFallback
    /\ (DeliveryOver /\ AckedSends = {} /\ ~no_media(media_items)) =>
          Len(calls[Len(calls)].links) = Len(media_items.val)

\* C7, as amended: the text message of the fallback carries one hyperlink
\* per media item that has a url, in the order of the list, each made of the
\* url and the type of its item.
C7_TextFallback ==
    /\ TextFallback
    /\ (DeliveryOver /\ AckedSends = {} /\ ~no_media(media_items)) =>
          LET links == calls[Len(calls)].links
              link_of(i) == create_safe_url_link(media_items.val[i].url,
                                                 Some(type_of(media_items.val[i])))
          IN /\ Len(links) = Cardinality(ItemsWithUrl)
             /\ \A k \in 1..Len(links) :
                   \E i \in ItemsWithUrl :
                      /\ Cardinality({j \in ItemsWithUrl : j <= i}) = k
                      /\ links[k] = link_of(i)

\* Two items, the first without a url and the second with a probe that
\* fails: the text message carries one link and its result is the result of
\* the delivery.
C7_Witness ==
    /\ pc = "record"
    /\ ~no_media(media_items)
    /\ Len(media_items.val) = 2
    /\ ItemsWithUrl = {2}
    /\ AckedSends = {}
    /\ Len(calls) = 2
    /\ calls[2].op = "sendMessage"
    /\ Len(calls[2].links) = 1
    /\ success = "True"

\* The identifiers of S that the sort key reads as numbers (str.isdigit).
Numeric(S) == {x \in S : isdigit(x)}

\* The set compact returned is KeepCount identifiers of the set it was
\* given, and every numeric identifier it kept is at least every numeric
\* identifier it dropped.
RetainedHighest(result, given) ==
    /\ result \subseteq given
    /\ Cardinality(result) = KeepCount
    /\ \A x \in Numeric(result) : \A y \in Numeric(given \ result) : int(x) >= int(y)

\* The step in which cleanup_old_sent_tweets returns after it wrote every
\* line and closed the file: the return of line 250, whose value is
\* sent_tweets_to_keep. (A close that raises leaves through line 254 with
\* the set it was given.)
RewriteReturns ==
    /\ pc = "cleanup_write"
    /\ to_write = <<>>
    /\ pc' = "add_accounts"
    /\ sent_tweets' = to_keep

\* The set is at or below the threshold: compact returns it and leaves the
\* file alone.
SmallSetUntouched ==
    [][(pc = "cleanup" /\ ~needs_cleanup(sent_tweets)) =>
          (pc' = "add_accounts" /\ UNCHANGED store_vars)]_vars

\* C8, as stated, for a rewrite that did not fail: the returned set has the
\* retained size, its numeric identifiers are the highest, and no numeric
\* identifier (one of value 0 included) is dropped while a non-numeric one is
\* kept.
C8_Original ==
    /\ [][RewriteReturns =>
            /\ RetainedHighest(sent_tweets', sent_tweets)
            /\ (sent_tweets' \ Numeric(sent_tweets') # {}) =>
                  (Numeric(sent_tweets) \subseteq sent_tweets')]_vars
    /\ SmallSetUntouched

\* C8, as amended: when the rewrite of the file does not fail the returned
\* set has the retained size, its numeric identifiers are the highest, and
\* no numeric identifier of a value above 0 is dropped while a non-numeric
\* one is kept; when the rewrite fails the set is returned unchanged.
C8_KeepsHighest ==
    /\ [][RewriteReturns =>
            /\ RetainedHighest(sent_tweets', sent_tweets)
            /\ (sent_tweets' \ Numeric(sent_tweets') # {}) =>
                  ({x \in Numeric(sent_tweets) : int(x) > 0} \subseteq sent_tweets')]_vars
    /\ [][(pc \in {"cleanup", "cleanup_write"} /\ pc' = "add_accounts" /\ ~RewriteReturns) =>
            sent_tweets' = sent_tweets]_vars
    /\ SmallSetUntouched

\* A compaction that returned the retained set: it kept a non-numeric
\* identifier and dropped the identifier 0 and another non-numeric one.
C8_Witness ==
    /\ pc = "add_accounts"
    /\ needs_cleanup(loaded)
    /\ sent_tweets # loaded
    /\ Cardinality(sent_tweets) = KeepCount
    /\ sent_tweets \ Numeric(sent_tweets) # {}
    /\ <<"0">> \in loaded \ sent_tweets
    /\ (loaded \ sent_tweets) \ Numeric(loaded) # {}

\* C9: while cleanup_old_sent_tweets rewrites the file, and after it, the
\* file holds the identifiers it held before or the retained ones, and the
\* set returned is the set in the file.
C9_AtomicRewrite ==
    /\ (pc = "cleanup_write") =>
          ids_in_file \in {load_sent_tweets(TRUE, file_before, Len(file_before)), to_keep}
    /\ (pc = "add_accounts" /\ needs_cleanup(loaded)) => ids_in_file = sent_tweets

\* C10: once adding the accounts or logging in has failed, no cycle is
\* started and no post is delivered.
C10_InitFailureAborts ==
    init_failed # "none" =>
       /\ cycle_count = 0
       /\ pc \in {"aborted", "enter_loop", "loop", "uncaught"}
       /\ \A i \in TweetIds : delivered[i] = 0
       /\ attempts = 0

(***************************************************************************)
(* SpecLoop: the scheduler loop after a start-up that succeeded, with the  *)
(* fairness of a program that keeps running: whatever step the code can    *)
(* take next is taken, and an interrupt may or may not come.               *)
(***************************************************************************)
\* The seen-set files the loop is entered with, read in full.
LoopFiles == {<<>>, <<Line(Str(1))>>}

InitLoop ==
    /\ pc = "loop"
    /\ CONTINUOUS_MONITORING \in BOOLEAN
    /\ TELEGRAM_BOT_TOKEN \in ConfigStrings
    /\ TELEGRAM_CHAT_ID \in ConfigStrings
    /\ file \in LoopFiles
    /\ file_exists = (file # <<>>)
    /\ sent_tweets = load_sent_tweets(file_exists, file, Len(file))
    /\ loaded = sent_tweets
    /\ seen0 = sent_tweets
    /\ file_before = file
    /\ to_keep = {}
    /\ to_write = <<>>
    /\ cycle_count = 0
    /\ total_tweets_sent = 0
    /\ tweet_count = 0
    /\ new_tweets_sent = 0
    /\ duplicates_skipped = 0
    /\ tweet = NoneVal
    /\ telegram_message = NoneVal
    /\ media_items = NoneVal
    /\ item_index = 0
    /\ success = "none"
    /\ calls = <<>>
    /\ file_len0 = 0
    /\ attempts = 0
    /\ pauses = 0
    /\ delivered = [i \in TweetIds |-> 0]
    /\ cause = "none"
    /\ io_failed = FALSE
    /\ init_failed = "none"
    /\ returned = <<>>
    /\ call_arg = NoneVal
    /\ call_result = NoneVal

\* The bodies of the posts SpecLoop follows: None, which faults, and a text.
LoopBodies == {NoneVal, Some(<<"h", "i", "!">>)}

\* Examine, for the posts with these bodies and a media that is a list or
\* nothing.
ExamineLoop ==
    /\ Examine
    /\ tweet'.some => /\ tweet'.val.rawContent \in LoopBodies
                      /\ (tweet'.val.media.some => tweet'.val.media.val.is_list)

\* The steps of the code itself, taken as fair: every HTTP call returns or
\* raises (lines 75, 91, 112 and 178 pass a timeout), every sleep ends, and
\* api.search (line 374, which passes no timeout) yields its next post,
\* ends or raises: the search is a finite sequence of at most its limit of
\* posts.
Proceed ==
    \/ StartCycle
    \/ CallCycle
    \/ ExamineLoop
    \/ SkipDuplicate
    \/ PostFaults
    \/ FormatMessage
    \/ HandleMedia
    \/ StreamEnds
    \/ StreamFaults
    \/ ProbeMedia
    \/ NoCredentials
    \/ DeliverText
    \/ DeliverBegin
    \/ TryMedia
    \/ SendMedia
    \/ Fallback
    \/ Record
    \/ SaveOpen
    \/ SaveWrite
    \/ Count
    \/ Pause
    \/ CycleReturn
    \/ Accumulate
    \/ AfterCycle
    \/ Sleep

NextLoop ==
    \/ Proceed
    \/ Interrupt

SpecLoop == InitLoop /\ [][NextLoop]_vars /\ WF_vars(Proceed)

\* The loop was ended by an interrupt.
Interrupted == pc \in {"interrupted", "cancelled"}

\* C11: after a start-up that succeeded, single-shot mode runs one cycle and
\* stops; in continuous mode, unless an interrupt comes, every cycle that
\* was started returns and is followed by the next one, whatever happened in
\* it; and a cycle starts only when every cycle before it has returned.
C11_LoopGoesOn ==
    /\ [](pc = "done" => (~CONTINUOUS_MONITORING /\ cycle_count = 1 /\ Len(returned) = 1))
    /\ [](~CONTINUOUS_MONITORING => cycle_count <= 1)
    /\ [][(cycle_count' # cycle_count) =>
            (pc = "loop" /\ cycle_count' = cycle_count + 1 /\ Len(returned) = cycle_count)]_vars
    /\ [](pc \in InCycle \cup {"call_cycle", "cycle_end"} => Len(returned) = cycle_count - 1)
    /\ [](pc \in {"accumulate", "summary", "sleep"} => Len(returned) = cycle_count)
    /\ (pc \in InCycle) ~> (pc = "cycle_end" \/ Interrupted)
    /\ (pc = "cycle_end") ~>
          (pc = after_cycle(CONTINUOUS_MONITORING) \/ Interrupted)
    /\ (pc = "sleep" /\ cycle_count < MaxCycles) ~> (pc = "iter" \/ Interrupted)

\* Continuous mode: the first cycle returned without a post sent, and the
\* second cycle is running.
C11_Witness ==
    /\ CONTINUOUS_MONITORING
    /\ cycle_count = 2
    /\ Len(returned) = 1
    /\ pc = "iter"
    /\ tweet_count = 0
    /\ cause = "none"
    /\ returned[1] = 0


\* C12: an interrupt ends the loop only between two cycles, never inside a
\* cycle: a cycle in progress runs to its return, every post delivered is
\* recorded in the seen set, and the loop that ends on an interrupt has
\* reported the cumulative statistics (the KeyboardInterrupt handler).
C12_InterruptBetweenCycles ==
    /\ [][(cause' \in Interrupts) => (pc \notin InCycle)]_vars
    /\ []((Interrupted /\ cycle_count > 0) => delivered_ids \subseteq sent_tweets)
    /\ []((Interrupted /\ cycle_count > 0) =>
            (pc = "interrupted" /\ Len(returned) = cycle_count))


\* C13: load_sent_tweets returns the empty set when the file is absent and
\* when reading it fails part-way (never a part of the identifiers), and
\* otherwise every identifier of the file; it never raises.
C13_LoadAllOrNothing ==
    pc = "cleanup" =>
        loaded = (IF file_exists /\ ~io_failed THEN ids_in_file ELSE {})


(***************************************************************************)
(* escape_markdown_v2 on its own                                           *)
(***************************************************************************)
\* The characters of the texts: the first and the last reserved character,
\* the escape marker and an ordinary character.
TextChars == {"_", "!", "\\", "a"}

\* The arguments of escape_markdown_v2: None and every text of at most
\* MaxText characters.
Texts == {NoneVal} \cup {Some(t) : t \in UNION {[1..n -> TextChars] : n \in 0..MaxText}}

InitEscape ==
    /\ pc = "escape"
    /\ CONTINUOUS_MONITORING = FALSE
    /\ TELEGRAM_BOT_TOKEN = <<"x">>
    /\ TELEGRAM_CHAT_ID = <<"x">>
    /\ file_exists = FALSE
    /\ file = <<>>
    /\ InitProgram
    /\ call_arg \in Texts
    /\ call_result = NoneVal

\* The call escape_markdown_v2(call_arg).
Escape ==
    /\ pc = "escape"
    /\ call_result' = Some(escape_markdown_v2(call_arg))
    /\ pc' = "escaped"
    /\ UNCHANGED <<config_vars, call_arg, store_vars, cleanup_vars, loop_vars, counter_vars,
                   post_vars, send_vars, loaded, seen0, cycle_history, delivered,
                   cause, io_failed, init_failed>>

NextEscape == Escape

SpecEscape == InitEscape /\ [][NextEscape]_vars

\* How MarkdownV2 reads a text: an escape marker takes the character after
\* it, whatever it is; a reserved character is neutralized when a marker
\* took it.  TRUE when no reserved character of out is left on its own.
RECURSIVE Neutralized(_)
Neutralized(out) ==
    IF Len(out) = 0 THEN TRUE
    ELSE IF out[1] = "\\"
         THEN (IF Len(out) = 1 THEN TRUE ELSE Neutralized(SubSeq(out, 3, Len(out))))
         ELSE out[1] \notin Range(special_chars) /\ Neutralized(Tail(out))

\* C14: escape_markdown_v2 never under-escapes: in its result every reserved
\* character is taken by an escape marker that no marker before it took,
\* also for a text that is already partly escaped; for None and for the
\* empty text the result is the empty string.
C14_NeverUnderEscapes ==
    pc = "escaped" =>
        /\ Neutralized(call_result.val)
        /\ (no_text(call_arg) => call_result.val = <<>>)


(***************************************************************************)
(* The search query: lines 353-364 of perform_scraping_cycle               *)
(***************************************************************************)
\* The largest MAX_AGE_DAYS the query is built with.
MaxAgeDays == 2

is_leap(year) == (year % 4 = 0 /\ year % 100 # 0) \/ year % 400 = 0

days_in_month(year, month) ==
    IF month = 2 THEN (IF is_leap(year) THEN 29 ELSE 28)
    ELSE IF month \in {4, 6, 9, 11} THEN 30 ELSE 31

\* date - timedelta(days=1)
day_before(date) ==
    IF date.day > 1 THEN [date EXCEPT !.day = @ - 1]
    ELSE IF date.month > 1
         THEN [year |-> date.year, month |-> date.month - 1,
               day |-> days_in_month(date.year, date.month - 1)]
         ELSE [year |-> date.year - 1, month |-> 12, day |-> 31]

\* date - timedelta(days=days), days >= 0
RECURSIVE minus_days(_, _)
minus_days(date, days) ==
    IF days = 0 THEN date ELSE minus_days(day_before(date), days - 1)

\* A number in at least `width` digits, zeroes in front (%Y, %m and %d).
RECURSIVE zero_padded(_, _)
zero_padded(digits, width) ==
    IF Len(digits) >= width THEN digits ELSE zero_padded(<<"0">> \o digits, width)

\* date.strftime("%Y-%m-%d")
strftime(date) ==
    zero_padded(Str(date.year), 4) \o <<"-">> \o zero_padded(Str(date.month), 2)
        \o <<"-">> \o zero_padded(Str(date.day), 2)

SINCE == <<"s", "i", "n", "c", "e", ":">>
MIN_FAVES == <<" ", "m", "i", "n", "_", "f", "a", "v", "e", "s", ":">>
FILTER_MEDIA == <<" ", "f", "i", "l", "t", "e", "r", ":", "m", "e", "d", "i", "a">>
NOT_FILTER_MEDIA == <<" ", "-", "f", "i", "l", "t", "e", "r", ":", "m", "e", "d", "i", "a">>

\* Line 354: f"since:{since_date} min_faves:{MIN_LIKES}"
base_query(since_date, MIN_LIKES) == SINCE \o since_date \o MIN_FAVES \o Str(MIN_LIKES)

\* A variant of the branches of lines 356-364 that filters on media in
\* every mode but "text_only".
query_media_by_default(base, TWEET_TYPES) ==
    IF TWEET_TYPES = "text_only" THEN base \o NOT_FILTER_MEDIA ELSE base \o FILTER_MEDIA

\* Lines 356-364: the clause of the mode.
query(base, TWEET_TYPES) ==
    IF TWEET_TYPES = "media_only" THEN base \o FILTER_MEDIA
    ELSE IF TWEET_TYPES = "text_only" THEN base \o NOT_FILTER_MEDIA
    ELSE base

\* Lines 353-364 as a function of the date of datetime.now() and of the
\* three settings.
build_query(now, MAX_AGE_DAYS, MIN_LIKES, TWEET_TYPES) ==
    query(base_query(strftime(minus_days(now, MAX_AGE_DAYS)), MIN_LIKES), TWEET_TYPES)

\* The dates of datetime.now(): every day of two years, one of them leap.
QueryDates ==
    {[year |-> y, month |-> m, day |-> d] :
        y \in {2023, 2024}, m \in 1..12, d \in 1..31} \ 
    {date \in [year : {2023, 2024}, month : 1..12, day : 1..31] :
        date.day > days_in_month(date.year, date.month)}

\* The settings: MAX_AGE_DAYS (line 47), MIN_LIKES (line 50) and TWEET_TYPES
\* (line 56) with the values of the file among them.
QuerySettings ==
    [MAX_AGE_DAYS : 0..MaxAgeDays, MIN_LIKES : {0, 50, 5000},
     TWEET_TYPES : {"media_only", "text_only", "all", "videos"}]

InitQuery ==
    /\ pc = "query"
    /\ CONTINUOUS_MONITORING = FALSE
    /\ TELEGRAM_BOT_TOKEN = <<"x">>
    /\ TELEGRAM_CHAT_ID = <<"x">>
    /\ file_exists = FALSE
    /\ file = <<>>
    /\ InitProgram
    /\ \E now \in QueryDates, settings \in QuerySettings :
          call_arg = Some([now |-> now, settings |-> settings])
    /\ call_result = NoneVal

\* Lines 353-364 with the date and the settings of call_arg.
BuildQuery ==
    /\ pc = "query"
    /\ call_result' = Some(build_query(call_arg.val.now, call_arg.val.settings.MAX_AGE_DAYS,
                                       call_arg.val.settings.MIN_LIKES,
                                       call_arg.val.settings.TWEET_TYPES))
    /\ pc' = "query_built"
    /\ UNCHANGED <<config_vars, call_arg, store_vars, cleanup_vars, loop_vars, counter_vars,
                   post_vars, send_vars, loaded, seen0, cycle_history, delivered,
                   cause, io_failed, init_failed>>

NextQuery == BuildQuery

SpecQuery == InitQuery /\ [][NextQuery]_vars

\* The days of the year before each month of a common year.
DaysBeforeMonth == <<0, 31, 59, 90, 120, 151, 181, 212, 243, 273, 304, 334>>

\* The number of a day of the calendar, counted from 0001-01-01.
Ordinal(date) ==
    365 * (date.year - 1) + ((date.year - 1) \div 4) - ((date.year - 1) \div 100)
        + ((date.year - 1) \div 400) + DaysBeforeMonth[date.month]
        + (IF date.month > 2 /\ date.year % 4 = 0
                /\ (date.year % 100 # 0 \/ date.year % 400 = 0) THEN 1 ELSE 0)
        + date.day

\* The date written in the ten characters YYYY-MM-DD, once they are known
\* to be digits and dashes.
DateOf(text) ==
    [year |-> int(SubSeq(text, 1, 4)), month |-> int(SubSeq(text, 6, 7)),
     day |-> int(SubSeq(text, 9, 10))]

IsDateText(text) ==
    /\ Len(text) = 10
    /\ isdigit(SubSeq(text, 1, 4)) /\ text[5] = "-"
    /\ isdigit(SubSeq(text, 6, 7)) /\ text[8] = "-"
    /\ isdigit(SubSeq(text, 9, 10))
    /\ DateOf(text).month \in 1..12
    /\ DateOf(text).day \in 1..31

\* The third clause of the query in each mode.
ModeClause(TWEET_TYPES) ==
    CASE TWEET_TYPES = "media_only" -> <<" ", "f", "i", "l", "t", "e", "r", ":", "m", "e", "d", "i", "a">>
      [] TWEET_TYPES = "text_only" -> <<" ", "-", "f", "i", "l", "t", "e", "r", ":", "m", "e", "d", "i", "a">>
      [] OTHER -> <<>>

\* The date and the settings of the scenario of the specification, and its
\* query.
ScenarioArg ==
    Some([now |-> [year |-> 2024, month |-> 6, day |-> 2],
          settings |-> [MAX_AGE_DAYS |-> 1, MIN_LIKES |-> 5000, TWEET_TYPES |-> "media_only"]])

ScenarioQuery == 
    <<"s", "i", "n", "c", "e", ":", "2", "0", "2", "4", "-", "0", "6", "-", "0", "1", " ", "m", "i", "n", "_", "f", "a", "v", "e", "s", ":", "5", "0", "0", "0", " ", "f", "i", "l", "t", "e", "r", ":", "m", "e", "d", "i", "a">>

\* C15: the query is "since:" and a date YYYY-MM-DD, which is the day
\* MAX_AGE_DAYS days before today, then " min_faves:" and the threshold in
\* decimal, then " filter:media" in the mode media_only, " -filter:media"
\* in the mode text_only and nothing in any other mode; the scenario of
\* 2024-06-02 gives "since:2024-06-01 min_faves:5000 filter:media".
C15_QueryClauses ==
    pc = "query_built" =>
        LET q == call_result.val
            arg == call_arg.val
            rest == SubSeq(q, 17, Len(q))
            threshold == SubSeq(rest, 12, Len(rest) - Len(ModeClause(arg.settings.TWEET_TYPES)))
        IN /\ Len(q) >= 16 + 11 + 1
           /\ SubSeq(q, 1, 6) = <<"s", "i", "n", "c", "e", ":">>
           /\ IsDateText(SubSeq(q, 7, 16))
           /\ Ordinal(DateOf(SubSeq(q, 7, 16))) = Ordinal(arg.now) - arg.settings.MAX_AGE_DAYS
           /\ SubSeq(rest, 1, 11) = <<" ", "m", "i", "n", "_", "f", "a", "v", "e", "s", ":">>
           /\ isdigit(threshold)
           /\ int(threshold) = arg.settings.MIN_LIKES
           /\ (Len(threshold) > 1 => threshold[1] # "0")
           /\ SubSeq(rest, 12 + Len(threshold), Len(rest)) = ModeClause(arg.settings.TWEET_TYPES)
           /\ (call_arg = ScenarioArg => q = ScenarioQuery)

\* The scenario of the specification, with its query built.
C15_Witness ==
    pc = "query_built" /\ call_arg = ScenarioArg /\ call_result = Some(ScenarioQuery)


(***************************************************************************)
(* SpecResolve: send_telegram_message_with_media on media items that carry *)
(* the four url attributes get_best_media_url looks at.                    *)
(***************************************************************************)
U2 == <<"u", "2">>

U3 == <<"u", "3">>

U4 == <<"u", "4">>

\* The attributes of line 261, in their order.
url_attrs == <<"url", "media_url_https", "media_url", "preview_image_url">>

\* Lines 258-264 of get_best_media_url: the attributes of the item that are
\* set, in the order of url_attrs.
RECURSIVE possible_urls_from(_, _)
possible_urls_from(media_item, i) ==
    IF i > Len(url_attrs) THEN <<>>
    ELSE (IF no_text(media_item[url_attrs[i]]) THEN <<>> ELSE <<media_item[url_attrs[i]].val>>)
         \o possible_urls_from(media_item, i + 1)

possible_urls(media_item) == possible_urls_from(media_item, 1)

\* Lines 266-271 of get_best_media_url: the first url that validates, or
\* None; probe_resp[k] is the response to the HEAD of the k-th url.
RECURSIVE first_valid(_, _, _)
first_valid(urls, probe_resp, k) ==
    IF k > Len(urls) THEN NoneVal
    ELSE IF validate_media_url(probe_resp[k]) THEN Some(urls[k])
    ELSE first_valid(urls, probe_resp, k + 1)

get_best_media_url(media_item, probe_resp) ==
    first_valid(possible_urls(media_item), probe_resp, 1)

\* The url attributes an item comes with: none, the primary one only, one
\* or two of the others only, the primary one and another.
ResolveUrls ==
    {[url |-> NoneVal, media_url_https |-> NoneVal, media_url |-> NoneVal,
      preview_image_url |-> NoneVal],
     [url |-> Some(U1), media_url_https |-> NoneVal, media_url |-> NoneVal,
      preview_image_url |-> NoneVal],
     [url |-> NoneVal, media_url_https |-> Some(U2), media_url |-> NoneVal,
      preview_image_url |-> NoneVal],
     [url |-> NoneVal, media_url_https |-> NoneVal, media_url |-> Some(U3),
      preview_image_url |-> Some(U4)],
     [url |-> Some(U1), media_url_https |-> Some(U2), media_url |-> NoneVal,
      preview_image_url |-> NoneVal]}

ResolveItems ==
    {[type |-> t, url |-> u.url, media_url_https |-> u.media_url_https,
      media_url |-> u.media_url, preview_image_url |-> u.preview_image_url] :
        t \in {Some(T_photo), Some(T_video)}, u \in ResolveUrls}

ResolveLists == UNION {[1..n -> ResolveItems] : n \in 0..MaxMedia}

InitResolve == InitDeliverOf(ResolveLists)

SpecResolve == InitResolve /\ [][NextDeliver]_vars

\* The items of the list that have at least one of the url attributes.
ItemsWithCandidate ==
    {i \in 1..Len(media_items.val) : Len(possible_urls(media_items.val[i])) > 0}

\* The HEAD requests made for item i.
ProbesOf(i) == {k \in 1..Len(calls) : calls[k].op = "HEAD" /\ calls[k].item = i}

\* C16: the delivery takes the url of an item from get_best_media_url: an
\* item that has any of the four attributes is not passed over before a
\* candidate of it was probed, every probe and every media send is for a
\* candidate of its item, and a media send uses a candidate whose probe
\* succeeded; so when no media send was acknowledged every item with a
\* candidate was probed.
C16_ResolvesCandidates ==
    (DeliveryOver /\ ~no_media(media_items)) =>
        /\ \A k \in 1..Len(calls) : k \notin TextSends =>
              calls[k].url \in Range(possible_urls(media_items.val[calls[k].item]))
        /\ AckedSends = {} => \A i \in ItemsWithCandidate : ProbesOf(i) # {}


\* C17: the pause follows the outcome of the delivery.  After a delivery
\* that returned True the identifier is recorded and the counter of sent
\* posts incremented, then comes the pause, and the next post is examined
\* after it; after a delivery that returned False the identifier is not
\* recorded and the next post is examined with no pause.  (Steps of an
\* interrupt are left aside.)
C17_PauseFollowsOutcome ==
    /\ [][(pc = "record" /\ success = "True" /\ cause' \notin Interrupts) =>
            /\ pc' = "save_open"
            /\ tweet_id_str \in sent_tweets'
            /\ pauses' = pauses]_vars
    /\ [][(pc \in {"save_open", "save_write"} /\ cause' \notin Interrupts) =>
            /\ pc' \in {"save_write", "count"}
            /\ tweet_id_str \in sent_tweets'
            /\ pauses' = pauses]_vars
    /\ [][(pc = "count" /\ cause' \notin Interrupts) =>
            /\ pc' = "pause"
            /\ tweet_id_str \in sent_tweets'
            /\ new_tweets_sent' = new_tweets_sent + 1
            /\ pauses' = pauses]_vars
    /\ [][(pc = "pause" /\ cause' \notin Interrupts) =>
            (pc' = "iter" /\ pauses' = pauses + 1)]_vars
    /\ [][(pc = "record" /\ success = "False" /\ cause' \notin Interrupts) =>
            /\ pc' = "pause"
            /\ sent_tweets' = sent_tweets
            /\ new_tweets_sent' = new_tweets_sent
            /\ pauses' = pauses]_vars
    /\ [][(pauses' # pauses) => (success = "True")]_vars

\* C18: a delivery primitive returns True only for an acknowledged call and
\* False for every failure, and never raises: no exception of a send ends
\* the cycle, and the delivery returns True exactly when its last call was
\* acknowledged.
C18_PrimitivesNeverRaise ==
    /\ cause # "send_raise"
    /\ (pc = "record" /\ Len(calls) > 0) =>
          ((success = "True") <=> (calls[Len(calls)].resp = "ack"))
    /\ (pc = "record" /\ Len(calls) > 0) => success \in {"True", "False"}


\* C19: in one run of the program no post identifier has more than one
\* delivery that returned True, whatever the search yields (the same post
\* again in the stream or in a later cycle included) and whether or not the
\* writes to the file fail.
C19_DeliveredOnce == \A i \in TweetIds : delivered[i] <= 1

\* A post was delivered and the write of its identifier failed; the search
\* yielded it again, in the second cycle, where it was counted as a
\* duplicate and not sent.
C19_Witness ==
    /\ cycle_count = 2
    /\ delivered[1] = 1
    /\ ids_in_file = {}
    /\ Str(1) \notin seen0
    /\ duplicates_skipped = 1
    /\ attempts = 0
    /\ pc = "iter"


\* The sum of a sequence of numbers.
RECURSIVE Sum(_)
Sum(s) == IF Len(s) = 0 THEN 0 ELSE s[1] + Sum(Tail(s))

\* Between two cycles of the scheduler loop: before the first one, during
\* the sleep, and after the break of single-shot mode.
CycleBoundary == pc \in {"loop", "sleep", "done"}

\* The start-up is over: the loop was entered.
LoopEntered == pc \in InCycle \cup InLoop \cup {"done", "interrupted", "cancelled",
                                              "monitoring_error"}

\* C20: between two cycles, total_tweets_sent is the sum of the counts the
\* cycles returned, and is the number of identifiers added to sent_tweets
\* since the start-up (its size minus its size after load and cleanup);
\* and after the start-up sent_tweets only grows.
C20_TotalsAgree ==
    /\ [](CycleBoundary =>
            /\ Len(returned) = cycle_count
            /\ total_tweets_sent = Sum(returned)
            /\ total_tweets_sent = Cardinality(sent_tweets) - Cardinality(seen0))
    /\ [][LoopEntered => (sent_tweets \subseteq sent_tweets')]_vars
    /\ [](LoopEntered => seen0 \subseteq sent_tweets)

\* Continuous mode, between the second cycle and the third: each of the two
\* cycles sent one post, and the total is 2.
C20_Witness ==
    /\ pc = "sleep"
    /\ cycle_count = 2
    /\ returned = <<1, 1>>
    /\ total_tweets_sent = 2
    /\ Cardinality(sent_tweets) = Cardinality(seen0) + 2

====
